---- MODULE Spec2Model ----
(***************************************************************************)
(* The hierarchical API registry of packages/api-registry                   *)
(* (class APIRegistry), modelled as a state machine: one action per public  *)
(* method or constructor call.  JavaScript strings are sequences of         *)
(* one-character strings, so that toLocaleUpperCase, split('::') and        *)
(* join('::') are computed and not assumed.                                 *)
(***************************************************************************)
EXTENDS Integers, Sequences, FiniteSets, TLC

\* ------------------------------------------------------------------ bounds
\* At most this many registries are constructed in one run.
MaxNodes == 3
\* At most this many registries and stored handler references together.
MaxSize == 4
\* At most this many calls of the factories are made in one run.
MaxCalls == 3

\* ------------------------------------------------------------- JS strings
LowerCaseLetters ==
    <<"a","b","c","d","e","f","g","h","i","j","k","l","m",
      "n","o","p","q","r","s","t","u","v","w","x","y","z">>

UpperCaseLetters ==
    <<"A","B","C","D","E","F","G","H","I","J","K","L","M",
      "N","O","P","Q","R","S","T","U","V","W","X","Y","Z">>

\* The characters strings are made of.
Chars ==
    {LowerCaseLetters[i] : i \in DOMAIN LowerCaseLetters}
        \cup {UpperCaseLetters[i] : i \in DOMAIN UpperCaseLetters}
        \cup {":", "_"}

\* String.prototype.toLocaleUpperCase, one character.
upperChar ==
    [c \in Chars |->
        IF \E i \in DOMAIN LowerCaseLetters : LowerCaseLetters[i] = c
        THEN UpperCaseLetters[CHOOSE i \in DOMAIN LowerCaseLetters : LowerCaseLetters[i] = c]
        ELSE c]

\* String.prototype.toLocaleUpperCase.
toLocaleUpperCase(s) == [i \in 1..Len(s) |-> upperChar[s[i]]]

\* The positions at which the separator '::' starts in s.
sepAt(s) == {i \in 1..(Len(s) - 1) : s[i] = ":" /\ s[i + 1] = ":"}

\* String.prototype.split('::'): left to right, never overlapping.
RECURSIVE split(_)
split(s) ==
    IF sepAt(s) = {}
    THEN <<s>>
    ELSE LET i == CHOOSE j \in sepAt(s) : \A k \in sepAt(s) : j <= k
         IN  <<SubSeq(s, 1, i - 1)>> \o split(SubSeq(s, i + 2, Len(s)))

\* Array.prototype.join('::').
RECURSIVE join(_)
join(a) ==
    IF Len(a) = 0 THEN <<>>
    ELSE IF Len(a) = 1 THEN a[1]
    ELSE a[1] \o <<":", ":">> \o join(Tail(a))

\* ------------------------------------------------------------- JS values
\* No registry: the value of #parentRegistry of a root, and of Map.get on a miss.
undefined == 0

\* Handlers are references, compared by identity.  What a handler returns when
\* it is called is part of the handler: an async function returns a promise
\* (truthy), a plain function without a return statement returns undefined.
AsyncFunctions == {"h1"}
VoidFunctions == {"fv"}
Functions == AsyncFunctions \cup VoidFunctions
NonFunctions == {"obj"}
Apis == Functions \cup NonFunctions

\* The private async methods that the middlewares register as handlers.
Methods ==
    {"login", "logout",
     "createContacts", "readContacts", "updateContacts", "deleteContacts"}

\* Function.prototype.bind: the k-th call of bind in the program returns a
\* function that no earlier call returned.
bind(method, k) == method \o "#" \o ToString(k)

\* A middleware binds at most four methods in one call.
MaxBinds == 4 * MaxCalls
BoundFunctions == {bind(method, k) : method \in Methods, k \in 1..MaxBinds}

\* A typeof check that lets every value through.
isFunctionAny(api) == TRUE

\* typeof api === 'function'
isFunction(api) == api \in Functions \cup BoundFunctions

\* The truthiness of what api(element, index, array) returns.
callIsTruthy(api, element) == api \in AsyncFunctions \cup BoundFunctions

\* Map
EmptyMap == [k \in {} |-> undefined]
mapHas(m, k) == k \in DOMAIN m
mapSet(m, k, v) == [x \in (DOMAIN m) \cup {k} |-> IF x = k THEN v ELSE m[x]]
mapDelete(m, k) == [x \in (DOMAIN m) \ {k} |-> m[x]]

\* A clear that removes nothing.
mapClearNothing(m) == m

\* Map.prototype.clear
mapClear(m) == EmptyMap

\* ----------------------------------------------------------------- inputs
ScopeNames ==
    { <<"r","o","o","t">>,
      <<"D","o","m","a","i","n">>,
      <<"C","O","N","T","E","X","T">> }

P_DoThing == <<"D","o","_","T","h","i","n","g">>
P_DomainDoThing == <<"D","O","M","A","I","N">> \o <<":", ":">> \o <<"D","O","_","T","H","I","N","G">>
P_DomainContextDoThing ==
    <<"D","O","M","A","I","N">> \o <<":", ":">> \o <<"C","O","N","T","E","X","T">>
        \o <<":", ":">> \o <<"D","O","_","T","H","I","N","G">>
P_domainDoThing == <<"d","o","m","a","i","n">> \o <<":", ":">> \o <<"D","o","_","T","h","i","n","g">>
P_rootDoThing == <<"r","o","o","t">> \o <<":", ":">> \o <<"d","o","_","t","h","i","n","g">>

\* Patterns handed to register.
RegisterPatterns == {P_DoThing, P_DomainDoThing}

\* The (pattern, api) pairs handed to register: every function under every
\* pattern, and a value that is no function.
RegisterCalls ==
    (RegisterPatterns \X Functions) \cup ({P_DoThing} \X NonFunctions)

\* The (pattern, api) pairs handed to unregister: those of register, and the
\* scope-qualified pattern.
UnregisterCalls == RegisterCalls \cup {<<P_DomainContextDoThing, "h1">>}

\* Patterns handed to resolve.
ResolvePatterns ==
    {P_DomainContextDoThing, P_domainDoThing, P_rootDoThing}

\* ------------------------------------------------------------------ state
VARIABLES
    scopeName,        \* #scopeName of each registry, in construction order
    parentRegistry,   \* #parentRegistry of each registry (undefined: none)
    apiMap,           \* #apiMap of each registry: pattern -> list of handlers
    childRegistries,  \* #childRegistries of each registry: name -> registry
    last              \* history: the last call, its arguments, its outcome,
                      \* whether it changed a handler table, how often it
                      \* invoked a handler, which keys it cleared and
                      \* which parent reference it dropped
VARIABLE
    call              \* a resolve call that is run step by step: where it
                      \* stands between its awaits, and the array it
                      \* returned
VARIABLE
    seen              \* history: what an uninterrupted resolve would have
                      \* returned in each state since the call was made
VARIABLE
    middleware        \* the middleware factories: their static instance
                      \* fields, the instances constructed, the factory calls
                      \* and where each stands between its awaits, and
                      \* (history) the registry calls issued so far

VARIABLE
    repository        \* the SQL database repository factory: its static
                      \* map of instances, the instances constructed, and
                      \* the factory calls between their awaits

vars ==
    <<scopeName, parentRegistry, apiMap, childRegistries, last, call, seen,
      middleware, repository>>

\* The state of the factories, which no call on a registry touches.
server == <<middleware, repository>>

Nodes == DOMAIN scopeName

NoCall ==
    [op |-> "none", node |-> undefined, pattern |-> <<>>, api |-> "none",
     ret |-> <<>>, outcome |-> "none", changed |-> FALSE,
     invoked |-> 0, cleared |-> {}, detached |-> undefined]

\* The middleware classes: Session and Contacts.
Classes == {"Session", "Contacts"}

\* No middleware was constructed and no factory was called.
NoMiddleware ==
    [instance |-> [c \in Classes |-> undefined], made |-> <<>>, binds |-> 0,
     tasks |-> <<>>, issued |-> <<>>]

\* No repository was constructed and no factory was called.
NoRepository == [sqldbInstances |-> EmptyMap, made |-> <<>>, tasks |-> <<>>]

\* No resolve call is being run step by step.
NoResolve ==
    [pc |-> "idle", node |-> undefined, pattern |-> <<>>, asked |-> <<>>,
     from |-> <<>>, apis |-> <<>>, ret |-> <<>>, held |-> <<>>]

Init ==
    /\ scopeName = <<>>
    /\ parentRegistry = <<>>
    /\ apiMap = <<>>
    /\ childRegistries = <<>>
    /\ last = NoCall
    /\ call = NoResolve
    /\ seen = {}
    /\ middleware = NoMiddleware
    /\ repository = NoRepository

\* ------------------------------------------------------- the class's code
\* What shift() and [0] give on an empty array: no string at all.
NoString == <<"<undefined>">>

\* Map.prototype.get of #childRegistries: the registry stored under name, or undefined.
childGet(m, name) == IF mapHas(m, name) THEN m[name] ELSE undefined

\* this.#childRegistries?.add?.(name, apiRegistry): a Map has no method add,
\* so the optional call is skipped and the map is left as it is.
childAdd(m, name, apiRegistry) == m

\* registerChild: does the call throw "already registered"?
registerChildThrows(m, name) == childGet(m, toLocaleUpperCase(name)) # undefined

\* registerChild: the child table after the call.
registerChild(m, name, apiRegistry) ==
    IF registerChildThrows(m, name)
    THEN m
    ELSE childAdd(m, toLocaleUpperCase(name), apiRegistry)

\* apiList.find(api): api is called as the predicate, on each element in turn;
\* TRUE when some call returns a truthy value (find then returns that element).
arrayFind(apiList, api) == \E i \in 1..Len(apiList) : callIsTruthy(api, apiList[i])

\* apiList.find(api): how often api is invoked.  find stops at the first
\* element for which the call returns a truthy value.
arrayFindCalls(apiList, api) ==
    IF arrayFind(apiList, api)
    THEN CHOOSE i \in 1..Len(apiList) :
             callIsTruthy(api, apiList[i])
                 /\ \A j \in 1..(i - 1) : ~callIsTruthy(api, apiList[j])
    ELSE Len(apiList)

\* if (!apiList.find(api)) apiList.push(api)
registerList(apiList, api) ==
    IF arrayFind(apiList, api) THEN apiList ELSE Append(apiList, api)

\* A register that appends the handler to the list of every key of the table.
registerMapAllKeys(m, pattern, api) ==
    LET key == toLocaleUpperCase(pattern)
        m1 == IF ~mapHas(m, key) THEN mapSet(m, key, <<>>) ELSE m
    IN  [k \in DOMAIN m1 |-> registerList(m1[k], api)]

\* register, past the typeof check: the handler table after the call.
registerMap(m, pattern, api) ==
    LET key == toLocaleUpperCase(pattern)
        m1 == IF ~mapHas(m, key) THEN mapSet(m, key, <<>>) ELSE m
    IN  mapSet(m1, key, registerList(m1[key], api))

\* register, past the typeof check: how often the call invokes api.
registerInvokes(m, pattern, api) ==
    LET key == toLocaleUpperCase(pattern)
    IN  IF mapHas(m, key) THEN arrayFindCalls(m[key], api) ELSE 0

\* apiList.indexOf(api), zero-based, -1 when absent.
indexOf(apiList, api) ==
    IF \E i \in 1..Len(apiList) : apiList[i] = api
    THEN (CHOOSE i \in 1..Len(apiList) :
              apiList[i] = api /\ \A j \in 1..(i - 1) : apiList[j] # api) - 1
    ELSE -1

\* apiList.splice(apiIndex, 1)
splice1(apiList, apiIndex) ==
    SubSeq(apiList, 1, apiIndex) \o SubSeq(apiList, apiIndex + 2, Len(apiList))

\* An unregister that leaves the key in the table when its list becomes empty.
unregisterMapKeepsKey(m, pattern, api) ==
    LET key == toLocaleUpperCase(pattern)
    IN  IF ~mapHas(m, key) THEN m
        ELSE LET apiIndex == indexOf(m[key], api)
             IN  IF apiIndex < 0 THEN m
                 ELSE mapSet(m, key, splice1(m[key], apiIndex))

\* unregister, past the typeof check: the handler table after the call.
unregisterMap(m, pattern, api) ==
    LET key == toLocaleUpperCase(pattern)
    IN  IF ~mapHas(m, key) THEN m
        ELSE LET apiIndex == indexOf(m[key], api)
             IN  IF apiIndex < 0 THEN m
                 ELSE LET apiList == splice1(m[key], apiIndex)
                      IN  IF Len(apiList) <= 0
                          THEN mapDelete(m, key)
                          ELSE mapSet(m, key, apiList)

\* A _find that looks the remainder up locally whatever the leading segment is.
findAnyScope(n, pattern) ==
    LET apiPattern == join(IF Len(pattern) = 0 THEN <<>> ELSE Tail(pattern))
    IN  IF mapHas(apiMap[n], apiPattern) THEN apiMap[n][apiPattern] ELSE <<>>

\* A _find that does not remove the leading segment before it joins the rest.
findUnshifted(n, pattern) ==
    IF Len(pattern) > 0 /\ Head(pattern) = scopeName[n]
    THEN IF mapHas(apiMap[n], join(pattern)) THEN apiMap[n][join(pattern)] ELSE <<>>
    ELSE <<>>

\* _find: the handlers of this registry, or of a child registry, for the
\* pattern array.  shift() removes the leading segment; the child is looked up
\* under the segment that follows it and is handed the shifted array.
RECURSIVE find(_, _)
find(n, pattern) ==
    LET patternScope == IF Len(pattern) = 0 THEN NoString ELSE Head(pattern)
        shifted == IF Len(pattern) = 0 THEN <<>> ELSE Tail(pattern)
    IN  IF patternScope = scopeName[n]
        THEN LET apiPattern == join(shifted)
             IN  IF mapHas(apiMap[n], apiPattern) THEN apiMap[n][apiPattern] ELSE <<>>
        ELSE LET next == IF Len(shifted) = 0 THEN NoString ELSE shifted[1]
                 childRegistry == childGet(childRegistries[n], next)
             IN  IF childRegistry # undefined
                 THEN find(childRegistry, shifted)
                 ELSE <<>>

\* A resolve that splits the pattern in the letter case it was given in.
patternLocalAsGiven(pattern) == split(pattern)

\* resolve: pattern.toLocaleUpperCase().split('::')
patternLocal(pattern) == split(toLocaleUpperCase(pattern))

\* A resolve that never asks the parent.
resolveLocalOnly(n, pattern) == find(n, patternLocal(pattern))

\* resolve: locally (and downwards) first, then the parent, with the pattern as given.
RECURSIVE resolve(_, _)
resolve(n, pattern) ==
    LET apis == find(n, patternLocal(pattern))
    IN  IF Len(apis) > 0 THEN apis
        ELSE IF parentRegistry[n] = undefined THEN apis
        ELSE resolve(parentRegistry[n], pattern)

\* A getter that returns the registry's own scope name only.
domainPathOwn(n) == scopeName[n]

\* get domainPath
RECURSIVE domainPath(_)
domainPath(n) ==
    IF parentRegistry[n] # undefined
    THEN domainPath(parentRegistry[n]) \o <<":", ":">> \o scopeName[n]
    ELSE scopeName[n]

\* The handler references stored in a tree of handler tables, by position.
storedAt(am) ==
    UNION { UNION { {<<n, k, i>> : i \in 1..Len(am[n][k])} : k \in DOMAIN am[n] }
            : n \in DOMAIN am }

\* ---------------------------------------------------------------- actions
\* new APIRegistry(domainName, parentRegistry).  registerChild is async and is
\* not awaited: when it throws, its promise is rejected and the constructor
\* still completes normally.
Construct(domainName, parent) ==
    /\ Len(scopeName) < MaxNodes
    /\ Len(scopeName) + Cardinality(storedAt(apiMap)) < MaxSize
    /\ LET self == Len(scopeName) + 1
           name == toLocaleUpperCase(domainName)
       IN  /\ scopeName' = Append(scopeName, name)
           /\ parentRegistry' = Append(parentRegistry, parent)
           /\ apiMap' = Append(apiMap, EmptyMap)
           /\ childRegistries' =
                Append(IF parent = undefined
                       THEN childRegistries
                       ELSE [childRegistries EXCEPT
                                ![parent] = registerChild(@, name, self)],
                       EmptyMap)
           /\ last' = [NoCall EXCEPT
                          !.op = "construct", !.node = self, !.pattern = domainName,
                          !.ret = parent,
                          !.outcome = IF parent # undefined
                                         /\ registerChildThrows(childRegistries[parent], name)
                                      THEN "rejected" ELSE "returned"]

\* parent.registerChild(name, child), called directly.
RegisterChild(n, name, child) ==
    /\ childRegistries' = [childRegistries EXCEPT ![n] = registerChild(@, name, child)]
    /\ last' = [NoCall EXCEPT
                   !.op = "registerChild", !.node = n, !.pattern = name, !.ret = child,
                   !.outcome = IF registerChildThrows(childRegistries[n], name)
                               THEN "threw" ELSE "returned"]
    /\ UNCHANGED <<scopeName, parentRegistry, apiMap>>

\* n.register(pattern, api)
Register(n, pattern, api) ==
    IF ~isFunction(api)
    THEN /\ last' = [NoCall EXCEPT !.op = "register", !.node = n, !.pattern = pattern,
                                   !.api = api, !.outcome = "threw"]
         /\ UNCHANGED <<scopeName, parentRegistry, apiMap, childRegistries>>
    ELSE /\ apiMap' = [apiMap EXCEPT ![n] = registerMap(@, pattern, api)]
         /\ Len(scopeName) + Cardinality(storedAt(apiMap')) <= MaxSize
         /\ last' = [NoCall EXCEPT !.op = "register", !.node = n, !.pattern = pattern,
                                   !.api = api, !.ret = TRUE, !.outcome = "returned",
                                   !.changed = (apiMap' # apiMap),
                                   !.invoked = registerInvokes(apiMap[n], pattern, api)]
         /\ UNCHANGED <<scopeName, parentRegistry, childRegistries>>

\* n.unregister(pattern, api)
Unregister(n, pattern, api) ==
    IF ~isFunction(api)
    THEN /\ last' = [NoCall EXCEPT !.op = "unregister", !.node = n, !.pattern = pattern,
                                   !.api = api, !.outcome = "threw"]
         /\ UNCHANGED <<scopeName, parentRegistry, apiMap, childRegistries>>
    ELSE /\ apiMap' = [apiMap EXCEPT ![n] = unregisterMap(@, pattern, api)]
         /\ last' = [NoCall EXCEPT !.op = "unregister", !.node = n, !.pattern = pattern,
                                   !.api = api, !.ret = TRUE, !.outcome = "returned",
                                   !.changed = (apiMap' # apiMap)]
         /\ UNCHANGED <<scopeName, parentRegistry, childRegistries>>

\* n.resolve(pattern)
Resolve(n, pattern) ==
    /\ last' = [NoCall EXCEPT !.op = "resolve", !.node = n, !.pattern = pattern,
                              !.ret = resolve(n, pattern), !.outcome = "returned"]
    /\ UNCHANGED <<scopeName, parentRegistry, apiMap, childRegistries>>

\* An unregisterAll that keeps the parent reference.
UnregisterAllKeepsParent(n) ==
    /\ apiMap' = [apiMap EXCEPT ![n] = mapClear(@)]
    /\ childRegistries' = [childRegistries EXCEPT ![n] = mapClear(@)]
    /\ last' = [NoCall EXCEPT !.op = "unregisterAll", !.node = n, !.ret = TRUE,
                              !.outcome = "returned",
                              !.cleared = DOMAIN apiMap[n],
                              !.detached = parentRegistry[n]]
    /\ UNCHANGED <<scopeName, parentRegistry>>

\* n.unregisterAll()
UnregisterAll(n) ==
    /\ apiMap' = [apiMap EXCEPT ![n] = mapClear(@)]
    /\ childRegistries' = [childRegistries EXCEPT ![n] = mapClear(@)]
    /\ parentRegistry' = [parentRegistry EXCEPT ![n] = undefined]
    /\ last' = [NoCall EXCEPT !.op = "unregisterAll", !.node = n, !.ret = TRUE,
                              !.outcome = "returned",
                              !.cleared = DOMAIN apiMap[n],
                              !.detached = parentRegistry[n]]
    /\ UNCHANGED scopeName

\* The parentRegistry argument: a registry that exists, or none.
Parents == Nodes \cup {undefined}

\* The apiRegistry argument of registerChild: a registry constructed after n.
LaterNodes(n) == {c \in Nodes : c > n}

\* Every call runs to completion before the next one starts.
Next ==
    \/ \E domainName \in ScopeNames, parent \in Parents :
          Construct(domainName, parent) /\ UNCHANGED <<call, seen, server>>
    \/ \E n \in Nodes, name \in ScopeNames : \E child \in LaterNodes(n) :
          RegisterChild(n, name, child) /\ UNCHANGED <<call, seen, server>>
    \/ \E n \in Nodes, args \in RegisterCalls :
          Register(n, args[1], args[2]) /\ UNCHANGED <<call, seen, server>>
    \/ \E n \in Nodes, args \in UnregisterCalls :
          Unregister(n, args[1], args[2]) /\ UNCHANGED <<call, seen, server>>
    \/ \E n \in Nodes, pattern \in ResolvePatterns :
          Resolve(n, pattern) /\ UNCHANGED <<call, seen, server>>
    \/ \E n \in Nodes : UnregisterAll(n) /\ UNCHANGED <<call, seen, server>>

Spec == Init /\ [][Next]_vars

\* ------------------------------------------------------ reading domainPath
\* Reading n.domainPath
DomainPath(n) ==
    /\ last' = [NoCall EXCEPT !.op = "domainPath", !.node = n,
                              !.ret = domainPath(n), !.outcome = "returned"]
    /\ UNCHANGED <<scopeName, parentRegistry, apiMap, childRegistries>>

\* Registries are constructed and torn down, and their paths are read.
NextPath ==
    \/ \E domainName \in ScopeNames, parent \in Parents :
          Construct(domainName, parent) /\ UNCHANGED <<call, seen, server>>
    \/ \E n \in Nodes : UnregisterAll(n) /\ UNCHANGED <<call, seen, server>>
    \/ \E n \in Nodes : DomainPath(n) /\ UNCHANGED <<call, seen, server>>

PathSpec == Init /\ [][NextPath]_vars

\* ------------------------------------------- resolve, from await to await
\* _find: the registry and key whose list _find returns (the array object of
\* that registry's handler table), or <<>> when it returns a fresh empty array.
RECURSIVE findFrom(_, _)
findFrom(n, pattern) ==
    LET patternScope == IF Len(pattern) = 0 THEN NoString ELSE Head(pattern)
        shifted == IF Len(pattern) = 0 THEN <<>> ELSE Tail(pattern)
    IN  IF patternScope = scopeName[n]
        THEN LET apiPattern == join(shifted)
             IN  IF mapHas(apiMap[n], apiPattern) THEN <<n, apiPattern>> ELSE <<>>
        ELSE LET next == IF Len(shifted) = 0 THEN NoString ELSE shifted[1]
                 childRegistry == childGet(childRegistries[n], next)
             IN  IF childRegistry # undefined
                 THEN findFrom(childRegistry, shifted)
                 ELSE <<>>

\* A resolve that delegates to the registry it is running on.
askSelf(n) == n

\* this.#parentRegistry, the registry resolve delegates to.
askParent(n) == parentRegistry[n]

\* The elements of the array that _find returned, as they are now: the list
\* in the handler table it came from, or what was read when it was returned.
apisNow == IF call.from # <<>> THEN apiMap[call.from[1]][call.from[2]] ELSE call.apis

\* A return statement that hands out the array _find returned.
sameArray(from) == from

\* [...apis]: a new array, which is no list of any handler table.
copyOf(from) == <<>>

\* The elements of the array that resolve returned, as they are now.
returned == IF call.held # <<>> THEN apiMap[call.held[1]][call.held[2]] ELSE call.ret

\* n.resolve(pattern) is called.  It runs up to its first await: it splits
\* the pattern and calls _find, which runs through the child registries
\* without a pause (every _find is called before it is awaited).
ResolveCall(n, pattern) ==
    /\ call.pc \in {"idle", "done"}
    /\ call' = [pc |-> "awaiting", node |-> n, pattern |-> pattern, asked |-> <<n>>,
                from |-> findFrom(n, patternLocal(pattern)),
                apis |-> find(n, patternLocal(pattern)),
                ret |-> <<>>, held |-> <<>>]
    /\ UNCHANGED <<scopeName, parentRegistry, apiMap, childRegistries, last>>

\* After the await of _find: something was found, or there is no parent, and
\* the call returns a copy of what was found.
ResolveReturn ==
    /\ call.pc = "awaiting"
    /\ Len(apisNow) > 0 \/ parentRegistry[call.node] = undefined
    /\ call' = [call EXCEPT !.pc = "done", !.ret = apisNow,
                            !.held = copyOf(call.from)]
    /\ UNCHANGED <<scopeName, parentRegistry, apiMap, childRegistries, last>>

\* After the await of _find: nothing was found and there is a parent, whose
\* resolve is called with the pattern as given and runs up to its first await.
ResolveAskParent ==
    /\ call.pc = "awaiting"
    /\ Len(apisNow) = 0 /\ parentRegistry[call.node] # undefined
    /\ Len(call.asked) <= MaxNodes
    /\ LET parent == askParent(call.node)
       IN  call' = [call EXCEPT
                       !.node = parent, !.asked = Append(@, parent),
                       !.from = findFrom(parent, patternLocal(call.pattern)),
                       !.apis = find(parent, patternLocal(call.pattern))]
    /\ UNCHANGED <<scopeName, parentRegistry, apiMap, childRegistries, last>>

\* The continuation of the resolve call that is waiting.
ResolveContinue == ResolveReturn \/ ResolveAskParent

\* unregisterAll while a resolve call waits: the table is cleared, the array
\* the call holds is not, and it is no list of the table any more.
Detached(n) ==
    IF call.from # <<>> /\ call.from[1] = n
    THEN [call EXCEPT !.from = <<>>, !.apis = apiMap[n][call.from[2]],
                      !.held = IF @ = call.from THEN <<>> ELSE @]
    ELSE call

\* The caller takes the only element out of the array resolve returned:
\* postLoginProcessor = postLoginProcessor.shift()
Shift ==
    /\ call.pc = "done"
    /\ Len(returned) = 1
    /\ apiMap' = IF call.held # <<>>
                 THEN [apiMap EXCEPT ![call.held[1]][call.held[2]] = Tail(@)]
                 ELSE apiMap
    /\ last' = [NoCall EXCEPT !.op = "shift", !.node = call.asked[1],
                              !.pattern = call.pattern, !.api = Head(returned),
                              !.outcome = "returned"]
    /\ call' = NoResolve
    /\ UNCHANGED <<scopeName, parentRegistry, childRegistries>>

\* The inputs of the calls that run beside a resolve call run step by step.
SteppedScopeNames == {<<"r","o","o","t">>, <<"D","o","m","a","i","n">>}
SteppedRegisterCalls == {P_DoThing} \X AsyncFunctions
SteppedPatterns == {P_rootDoThing, P_domainDoThing}

\* The continuation of the resolve call, and nothing else.
ResolveStep == ResolveContinue /\ UNCHANGED <<seen, server>>

\* Registries are constructed, handlers registered and registries torn down
\* while a resolve call is run from await to await.
NextResolve ==
    \/ \E domainName \in SteppedScopeNames, parent \in Parents :
          Construct(domainName, parent) /\ UNCHANGED <<call, seen, server>>
    \/ \E n \in Nodes, args \in SteppedRegisterCalls :
          Register(n, args[1], args[2]) /\ UNCHANGED <<call, seen, server>>
    \/ \E n \in Nodes : UnregisterAll(n) /\ call' = Detached(n) /\ UNCHANGED <<seen, server>>
    \/ \E n \in Nodes, pattern \in SteppedPatterns :
          ResolveCall(n, pattern) /\ UNCHANGED <<seen, server>>
    \/ ResolveStep

\* The continuation of an awaited promise is run by the event loop once the
\* promise is settled.
ResolveSpec == Init /\ [][NextResolve]_vars /\ WF_vars(ResolveStep)

\* History: while the call waits, every step adds what an uninterrupted
\* resolve of the same pattern on the same registry returns in the state the
\* step starts in.
observed ==
    IF call.pc = "awaiting"
    THEN seen \cup {resolve(call.asked[1], call.pattern)}
    ELSE seen

\* The same calls, the caller's use of the returned array, and the history
\* of what an uninterrupted resolve would have returned.
NextOverlap ==
    \/ \E domainName \in SteppedScopeNames, parent \in Parents :
          Construct(domainName, parent) /\ seen' = observed /\ UNCHANGED <<call, server>>
    \/ \E n \in Nodes, args \in SteppedRegisterCalls :
          Register(n, args[1], args[2]) /\ seen' = observed /\ UNCHANGED <<call, server>>
    \/ \E n \in Nodes :
          UnregisterAll(n) /\ call' = Detached(n) /\ seen' = observed
              /\ UNCHANGED server
    \/ \E n \in Nodes, pattern \in SteppedPatterns :
          ResolveCall(n, pattern) /\ seen' = {resolve(n, pattern)}
              /\ UNCHANGED server
    \/ ResolveContinue /\ seen' = observed /\ UNCHANGED server
    \/ Shift /\ seen' = {} /\ UNCHANGED server

OverlapSpec == Init /\ [][NextOverlap]_vars

\* ------------------------------------------------- middleware factories
\* The registry the middlewares register with: domainInterface.apiRegistry.
apiRegistry == 1

LOGIN == <<"L","O","G","I","N">>
LOGOUT == <<"L","O","G","O","U","T">>
CREATE_CONTACT == <<"C","R","E","A","T","E","_","C","O","N","T","A","C","T">>
READ_CONTACT == <<"R","E","A","D","_","C","O","N","T","A","C","T">>
UPDATE_CONTACT == <<"U","P","D","A","T","E","_","C","O","N","T","A","C","T">>
DELETE_CONTACT == <<"D","E","L","E","T","E","_","C","O","N","T","A","C","T">>

\* What super._registerApi() returns: the base class has no api.
baseApis == <<>>

\* _registerApi: the patterns and the methods bound to them, in the order in
\* which register is called.
registerApi ==
    [Session |-> <<<<LOGIN, "login">>, <<LOGOUT, "logout">>>>,
     Contacts |-> <<<<CREATE_CONTACT, "createContacts">>,
                    <<READ_CONTACT, "readContacts">>,
                    <<UPDATE_CONTACT, "updateContacts">>,
                    <<DELETE_CONTACT, "deleteContacts">>>>]

\* _unregisterApi: the same, in the order in which unregister is called.
unregisterApi ==
    [Session |-> <<<<LOGIN, "login">>, <<LOGOUT, "logout">>>>,
     Contacts |-> <<<<DELETE_CONTACT, "deleteContacts">>,
                    <<UPDATE_CONTACT, "updateContacts">>,
                    <<READ_CONTACT, "readContacts">>,
                    <<CREATE_CONTACT, "createContacts">>>>]

\* The registry calls that one _registerApi or _unregisterApi issues, each
\* with a newly bound method, when binds functions were bound before.
issues(op, apis, binds) ==
    [i \in 1..Len(apis) |->
        [op |-> op, pattern |-> apis[i][1], api |-> bind(apis[i][2], binds + i)]]

\* A call whose body has not run when the call returns its promise.
issueDeferred(m, c) == m

\* The handler table after one register or unregister call has returned its
\* promise: neither has an await, the whole body has run.
issue(m, c) ==
    IF ~isFunction(c.api) THEN m
    ELSE IF c.op = "register" THEN registerMap(m, c.pattern, c.api)
    ELSE unregisterMap(m, c.pattern, c.api)

\* The handler table after a sequence of calls was issued one after the
\* other without awaiting any.
RECURSIVE issueAll(_, _)
issueAll(m, calls) ==
    IF Len(calls) = 0 THEN m
    ELSE issueAll(issue(m, Head(calls)), Tail(calls))

\* The factory call t stands at pc.
at(t, pc) == t \in DOMAIN middleware.tasks /\ middleware.tasks[t].pc = pc

\* MiddlewareFactory.createInstances(domainInterface) is called.  Without an
\* instance in the static field it constructs one, calls load and awaits it;
\* with one it returns it.
CreateInstances(class) ==
    /\ apiRegistry \in Nodes
    /\ Len(middleware.tasks) < MaxCalls
    /\ IF middleware.instance[class] = undefined
       THEN LET self == Len(middleware.made) + 1
            IN  middleware' =
                    [middleware EXCEPT
                        !.made = Append(@, [class |-> class, state |-> "loading"]),
                        !.tasks = Append(@, [op |-> "create", class |-> class,
                                             pc |-> "load", inst |-> self])]
       ELSE middleware' =
                [middleware EXCEPT
                    !.tasks = Append(@, [op |-> "create", class |-> class,
                                         pc |-> "done",
                                         inst |-> middleware.instance[class]])]
    /\ UNCHANGED <<scopeName, parentRegistry, apiMap, childRegistries, last>>

\* load of the base class calls _registerApi, which runs up to its first
\* await, that of super._registerApi().
Load(t) ==
    /\ at(t, "load")
    /\ middleware' = [middleware EXCEPT !.tasks[t].pc = "registerApi"]
    /\ UNCHANGED <<scopeName, parentRegistry, apiMap, childRegistries, last>>

\* _registerApi after the await of super._registerApi(): it calls register
\* once per api, awaiting none, and then awaits Promise.allSettled.
RegisterApi(t) ==
    /\ at(t, "registerApi")
    /\ LET class == middleware.tasks[t].class
           calls == [i \in 1..Len(baseApis) |->
                        [op |-> "register", pattern |-> baseApis[i][1],
                         api |-> baseApis[i][2]]]
                    \o issues("register", registerApi[class], middleware.binds)
       IN  /\ apiMap' = [apiMap EXCEPT ![apiRegistry] = issueAll(@, calls)]
           /\ middleware' =
                  [middleware EXCEPT
                      !.binds = @ + Len(registerApi[class]),
                      !.issued = @ \o calls,
                      !.tasks[t].pc = "settle"]
    /\ UNCHANGED <<scopeName, parentRegistry, childRegistries, last>>

\* After Promise.allSettled: _registerApi and load return, and
\* createInstances stores the instance in the static field and returns it.
CreateInstancesReturn(t) ==
    /\ at(t, "settle") /\ middleware.tasks[t].op = "create"
    /\ LET task == middleware.tasks[t]
       IN  middleware' =
               [middleware EXCEPT
                   !.made[task.inst].state = "loaded",
                   !.instance[task.class] = task.inst,
                   !.tasks[t].pc = "done"]
    /\ UNCHANGED <<scopeName, parentRegistry, apiMap, childRegistries, last>>

\* MiddlewareFactory.destroyInstances() is called: it calls unload on the
\* instance in the static field, if there is one, and awaits it.
DestroyInstances(class) ==
    /\ apiRegistry \in Nodes
    /\ Len(middleware.tasks) < MaxCalls
    /\ LET inst == middleware.instance[class]
       IN  middleware' =
               [middleware EXCEPT
                   !.made = IF inst = undefined THEN @
                            ELSE [@ EXCEPT ![inst].state = "unloading"],
                   !.tasks = Append(@, [op |-> "destroy", class |-> class,
                                        pc |-> IF inst = undefined THEN "settle"
                                               ELSE "unload",
                                        inst |-> inst])]
    /\ UNCHANGED <<scopeName, parentRegistry, apiMap, childRegistries, last>>

\* unload of the base class calls _unregisterApi.
Unload(t) ==
    /\ at(t, "unload")
    /\ middleware' = [middleware EXCEPT !.tasks[t].pc = "unregisterApi"]
    /\ UNCHANGED <<scopeName, parentRegistry, apiMap, childRegistries, last>>

\* _unregisterApi: it calls unregister once per api, awaiting none, and then
\* awaits Promise.allSettled.
UnregisterApi(t) ==
    /\ at(t, "unregisterApi")
    /\ LET class == middleware.tasks[t].class
           calls == issues("unregister", unregisterApi[class], middleware.binds)
       IN  /\ apiMap' = [apiMap EXCEPT ![apiRegistry] = issueAll(@, calls)]
           /\ middleware' =
                  [middleware EXCEPT
                      !.binds = @ + Len(calls),
                      !.issued = @ \o calls,
                      !.tasks[t].pc = "settle"]
    /\ UNCHANGED <<scopeName, parentRegistry, childRegistries, last>>

\* After the await of unload: destroyInstances clears the static field.
DestroyInstancesReturn(t) ==
    /\ at(t, "settle") /\ middleware.tasks[t].op = "destroy"
    /\ LET task == middleware.tasks[t]
       IN  middleware' =
               [middleware EXCEPT
                   !.made = IF task.inst = undefined THEN @
                            ELSE [@ EXCEPT ![task.inst].state = "unloaded"],
                   !.instance[task.class] = undefined,
                   !.tasks[t].pc = "done"]
    /\ UNCHANGED <<scopeName, parentRegistry, apiMap, childRegistries, last>>

\* The name of the domain whose registry the middlewares use.
DomainNames == {<<"D","o","m","a","i","n">>}

\* The domain's registry is constructed, and the factories are called while
\* earlier calls of theirs wait at an await.
NextMiddleware ==
    \/ \E domainName \in DomainNames :
          Nodes = {} /\ Construct(domainName, undefined)
              /\ UNCHANGED <<call, seen, server>>
    \/ \E class \in Classes :
          CreateInstances(class) /\ UNCHANGED <<call, seen, repository>>
    \/ \E t \in 1..MaxCalls :
          Load(t) /\ UNCHANGED <<call, seen, repository>>
    \/ \E t \in 1..MaxCalls :
          RegisterApi(t) /\ UNCHANGED <<call, seen, repository>>
    \/ \E t \in 1..MaxCalls :
          CreateInstancesReturn(t) /\ UNCHANGED <<call, seen, repository>>
    \/ \E class \in Classes :
          DestroyInstances(class) /\ UNCHANGED <<call, seen, repository>>
    \/ \E t \in 1..MaxCalls :
          Unload(t) /\ UNCHANGED <<call, seen, repository>>
    \/ \E t \in 1..MaxCalls :
          UnregisterApi(t) /\ UNCHANGED <<call, seen, repository>>
    \/ \E t \in 1..MaxCalls :
          DestroyInstancesReturn(t) /\ UNCHANGED <<call, seen, repository>>

MiddlewareSpec == Init /\ [][NextMiddleware]_vars

\* ------------------------------------------ SQL database repository factory
\* The configuration objects handed to the factory, as references: cfgA and
\* cfgA2 are two objects with the same contents.
Configurations == {"cfgA", "cfgA2", "cfgB"}

\* The configuration argument left out.
noConfiguration == "undefined"

\* JSON.stringify(configuration ?? {})
stringify ==
    [c \in Configurations \cup {noConfiguration} |->
        IF c \in {"cfgA", "cfgA2"} THEN "{\"client\":\"pg\"}"
        ELSE IF c = "cfgB" THEN "{\"client\":\"mysql\"}"
        ELSE "{}"]

\* Buffer.from(text).toString('base64')
base64 ==
    [text \in {stringify[c] : c \in DOMAIN stringify} |->
        IF text = "{\"client\":\"pg\"}" THEN "eyJjbGllbnQiOiJwZyJ9"
        ELSE IF text = "{\"client\":\"mysql\"}" THEN "eyJjbGllbnQiOiJteXNxbCJ9"
        ELSE "e30="]

\* repositoryKey
repositoryKey(configuration) == base64[stringify[configuration]]

\* get interface(): the knex handle of an instance, undefined without one.
interface(inst) ==
    IF inst # undefined /\ repository.made[inst].knex THEN inst ELSE undefined

\* The factory call t stands at pc.
atRepository(t, pc) == t \in DOMAIN repository.tasks /\ repository.tasks[t].pc = pc

\* RepositoryFactory.createInstances(configuration) is called.  Without an
\* instance under the key it constructs one, calls load and awaits it; with
\* one it returns that instance's interface.
RepositoryCreateInstances(configuration) ==
    /\ Len(repository.tasks) < MaxCalls
    /\ LET key == repositoryKey(configuration)
           self == Len(repository.made) + 1
       IN  IF ~mapHas(repository.sqldbInstances, key)
           THEN repository' =
                    [repository EXCEPT
                        !.made = Append(@, [configuration |-> configuration,
                                            knex |-> FALSE]),
                        !.tasks = Append(@, [op |-> "create",
                                             configuration |-> configuration,
                                             pc |-> "load", insts |-> {self},
                                             ret |-> undefined])]
           ELSE repository' =
                    [repository EXCEPT
                        !.tasks = Append(@, [op |-> "create",
                                             configuration |-> configuration,
                                             pc |-> "done", insts |-> {},
                                             ret |-> interface(repository.sqldbInstances[key])])]
    /\ UNCHANGED <<scopeName, parentRegistry, apiMap, childRegistries, last>>

\* SQLDatabase.load, after its awaits: the knex handle is set.
SQLDatabaseLoad(t) ==
    /\ atRepository(t, "load")
    /\ repository' =
           [repository EXCEPT
               !.made = [i \in DOMAIN @ |->
                            IF i \in repository.tasks[t].insts
                            THEN [@[i] EXCEPT !.knex = TRUE] ELSE @[i]],
               !.tasks[t].pc = "set"]
    /\ UNCHANGED <<scopeName, parentRegistry, apiMap, childRegistries, last>>

\* createInstances after the await of load: it stores the instance under the
\* key and returns the interface of the instance under the key.
RepositoryCreateInstancesReturn(t) ==
    /\ atRepository(t, "set")
    /\ LET task == repository.tasks[t]
           key == repositoryKey(task.configuration)
           sqldbInstance == CHOOSE i \in task.insts : TRUE
       IN  repository' =
               [repository EXCEPT
                   !.sqldbInstances = mapSet(@, key, sqldbInstance),
                   !.tasks[t].pc = "done",
                   !.tasks[t].ret = interface(sqldbInstance)]
    /\ UNCHANGED <<scopeName, parentRegistry, apiMap, childRegistries, last>>

\* RepositoryFactory.destroyInstances(configuration) is called.  With a
\* configuration it returns when the key has no instance, and calls unload on
\* the instance and awaits it otherwise; without one it calls unload on
\* every instance and awaits them all.
RepositoryDestroyInstances(configuration) ==
    /\ Len(repository.tasks) < MaxCalls
    /\ LET key == repositoryKey(configuration)
           m == repository.sqldbInstances
           task == [op |-> "destroy", configuration |-> configuration,
                    pc |-> "unload", insts |-> {}, ret |-> undefined]
       IN  repository' =
               [repository EXCEPT
                   !.tasks =
                       Append(@,
                           IF configuration = noConfiguration
                           THEN [task EXCEPT !.insts = {m[k] : k \in DOMAIN m}]
                           ELSE IF ~mapHas(m, key)
                           THEN [task EXCEPT !.pc = "done"]
                           ELSE [task EXCEPT !.insts = {m[key]}])]
    /\ UNCHANGED <<scopeName, parentRegistry, apiMap, childRegistries, last>>

\* SQLDatabase.unload, after the await of knex.destroy(): the knex handle is
\* cleared.  An instance without a handle returns at once.
SQLDatabaseUnload(t) ==
    /\ atRepository(t, "unload")
    /\ repository' =
           [repository EXCEPT
               !.made = [i \in DOMAIN @ |->
                            IF i \in repository.tasks[t].insts
                            THEN [@[i] EXCEPT !.knex = FALSE] ELSE @[i]],
               !.tasks[t].pc = "delete"]
    /\ UNCHANGED <<scopeName, parentRegistry, apiMap, childRegistries, last>>

\* destroyInstances after the await of unload: with a configuration,
\* #sqldbInstances.delete(configuration); without one, #sqldbInstances.clear().
RepositoryDestroyInstancesReturn(t) ==
    /\ atRepository(t, "delete")
    /\ LET configuration == repository.tasks[t].configuration
       IN  repository' =
               [repository EXCEPT
                   !.sqldbInstances =
                       IF configuration = noConfiguration THEN mapClear(@)
                       ELSE mapDelete(@, configuration),
                   !.tasks[t].pc = "done"]
    /\ UNCHANGED <<scopeName, parentRegistry, apiMap, childRegistries, last>>

\* The factory is called while earlier calls of it wait at an await.
NextRepository ==
    \/ \E configuration \in Configurations \cup {noConfiguration} :
          RepositoryCreateInstances(configuration)
              /\ UNCHANGED <<call, seen, middleware>>
    \/ \E t \in 1..MaxCalls :
          SQLDatabaseLoad(t) /\ UNCHANGED <<call, seen, middleware>>
    \/ \E t \in 1..MaxCalls :
          RepositoryCreateInstancesReturn(t) /\ UNCHANGED <<call, seen, middleware>>
    \/ \E configuration \in Configurations \cup {noConfiguration} :
          RepositoryDestroyInstances(configuration)
              /\ UNCHANGED <<call, seen, middleware>>
    \/ \E t \in 1..MaxCalls :
          SQLDatabaseUnload(t) /\ UNCHANGED <<call, seen, middleware>>
    \/ \E t \in 1..MaxCalls :
          RepositoryDestroyInstancesReturn(t) /\ UNCHANGED <<call, seen, middleware>>

RepositorySpec == Init /\ [][NextRepository]_vars

\* ----------------------------------------------------------------- claims
\* How often x occurs in the sequence a.
count(a, x) == Cardinality({i \in DOMAIN a : a[i] = x})

\* The pattern q, whatever its letter case, names registry n's scope followed
\* by the local key.
addresses(n, q, key) ==
    LET segments == split(toLocaleUpperCase(q))
    IN  Head(segments) = scopeName[n] /\ join(Tail(segments)) = key

\* Registry m holds handler h under some key.
holds(m, h) == \E k \in DOMAIN apiMap[m] : count(apiMap[m][k], h) > 0

\* Registry m has a registration that the pattern q addresses.
matches(m, q) == \E k \in DOMAIN apiMap[m] : addresses(m, q, k)

\* Registry a is m or one of m's ancestors on the parent chain.
RECURSIVE onChain(_, _)
onChain(m, a) ==
    \/ m = a
    \/ parentRegistry[m] # undefined /\ onChain(parentRegistry[m], a)

S_ROOT == <<"R","O","O","T">>
S_DOMAIN == <<"D","O","M","A","I","N">>
S_CONTEXT == <<"C","O","N","T","E","X","T">>
K_DO_THING == <<"D","O","_","T","H","I","N","G">>

\* C1: after register(p, h), however often it was called with that pair, a
\* resolve on the same registry of the pattern that addresses p there (the
\* registry's scope name, then p) returns a sequence holding h exactly once.
C1_RegisterIdempotent ==
    [][ ( /\ last.op = "register" /\ last.outcome = "returned"
          /\ last'.op = "resolve" /\ last'.node = last.node
          /\ addresses(last.node, last'.pattern, toLocaleUpperCase(last.pattern)) )
        => count(last'.ret, last.api) = 1 ]_vars

\* C2: after unregister(p, h) on a registry, while no other registry holds h, a
\* resolve of the pattern that addresses p there no longer contains h; and an
\* unregister(p, h) that repeats the last call changes no table and returns true.
C2_UnregisterRemoves ==
    /\ [][ ( /\ last.op = "unregister" /\ last.outcome = "returned"
             /\ last'.op = "resolve" /\ last'.node = last.node
             /\ addresses(last.node, last'.pattern, toLocaleUpperCase(last.pattern))
             /\ \A m \in Nodes \ {last.node} : ~holds(m, last.api) )
           => count(last'.ret, last.api) = 0 ]_vars
    /\ [][ ( /\ last.op = "unregister" /\ last.outcome = "returned"
             /\ last'.op = "unregister" /\ last'.node = last.node
             /\ last'.pattern = last.pattern /\ last'.api = last.api )
           => (apiMap' = apiMap /\ last'.ret = TRUE) ]_vars

threeLevels(r, d, c) ==
    /\ parentRegistry[r] = undefined /\ scopeName[r] = S_ROOT
    /\ parentRegistry[d] = r /\ scopeName[d] = S_DOMAIN
    /\ parentRegistry[c] = d /\ scopeName[c] = S_CONTEXT

\* C4: in the tree ROOT -> DOMAIN -> CONTEXT, right after CONTEXT.register(
\* "DO_THING", h1) has stored the tree's only handler, ROOT.resolve(
\* "DOMAIN::CONTEXT::DO_THING") returns [h1]; right after CONTEXT.unregister(
\* "DOMAIN::CONTEXT::DO_THING", h1) the same resolve from ROOT returns [].
C4_EndToEnd ==
    /\ [][ ( /\ last.op = "register" /\ last.outcome = "returned" /\ last.changed
             /\ toLocaleUpperCase(last.pattern) = K_DO_THING
             /\ Cardinality(storedAt(apiMap)) = 1
             /\ last'.op = "resolve" /\ last'.pattern = P_DomainContextDoThing
             /\ \E d \in Nodes : threeLevels(last'.node, d, last.node) )
           => last'.ret = <<last.api>> ]_vars
    /\ [][ ( /\ last.op = "unregister" /\ last.outcome = "returned"
             /\ last.pattern = P_DomainContextDoThing
             /\ last'.op = "resolve" /\ last'.pattern = P_DomainContextDoThing
             /\ \E d \in Nodes : threeLevels(last'.node, d, last.node) )
           => last'.ret = <<>> ]_vars

\* C5: with root R = ROOT and its child C = DOMAIN, a handler registered at R
\* under "DOMAIN::DO_THING" and handlers registered at C under "DO_THING",
\* R.resolve("DOMAIN::DO_THING") returns C's list for "DO_THING".
C5_Shadowing ==
    \A c \in Nodes :
        ( /\ last.op = "resolve" /\ last.pattern = P_domainDoThing
          /\ parentRegistry[last.node] = undefined /\ scopeName[last.node] = S_ROOT
          /\ parentRegistry[c] = last.node /\ scopeName[c] = S_DOMAIN
          /\ mapHas(apiMap[last.node], P_DomainDoThing)
          /\ mapHas(apiMap[c], K_DO_THING) )
        => last.ret = apiMap[c][K_DO_THING]

\* C6: when g.resolve(q) is called on a grandchild g of a root r (g's parent c
\* being a child of r), r has a local entry that q addresses, and no registry
\* of c's subtree has one, the result is r's list for that entry.
C6_Fallback ==
    \A r \in Nodes, c \in Nodes : \A key \in DOMAIN apiMap[r] :
        ( /\ last.op = "resolve"
          /\ parentRegistry[last.node] = c
          /\ parentRegistry[c] = r
          /\ parentRegistry[r] = undefined
          /\ addresses(r, last.pattern, key)
          /\ \A m \in Nodes : onChain(m, c) => ~matches(m, last.pattern) )
        => last.ret = apiMap[r][key]

\* A resolve from a grandchild was answered by the root's registration.
C6_Witness ==
    /\ last.op = "resolve"
    /\ parentRegistry[last.node] # undefined
    /\ parentRegistry[parentRegistry[last.node]] # undefined
    /\ parentRegistry[parentRegistry[parentRegistry[last.node]]] = undefined
    /\ matches(parentRegistry[parentRegistry[last.node]], last.pattern)
    /\ \A m \in Nodes :
          onChain(m, parentRegistry[last.node]) => ~matches(m, last.pattern)
    /\ Len(last.ret) > 0

\* C7: a registerChild that directly follows a successful registerChild on the
\* same registry under the same name, letter case aside, throws, and the child
\* table then maps the name to the first child.
C7_DuplicateChildFails ==
    [][ ( /\ last.op = "registerChild" /\ last.outcome = "returned"
          /\ last'.op = "registerChild" /\ last'.node = last.node
          /\ toLocaleUpperCase(last'.pattern) = toLocaleUpperCase(last.pattern) )
        => ( /\ last'.outcome = "threw"
             /\ mapHas(childRegistries'[last.node], toLocaleUpperCase(last.pattern))
             /\ childRegistries'[last.node][toLocaleUpperCase(last.pattern)] = last.ret )
      ]_vars

\* C8: right after a registry is constructed with a parent that had no child
\* of that name, the parent's child table maps the upper-cased name to the new
\* registry and the new registry's parent reference is the parent.
C8_ConstructAttaches ==
    ( /\ last.op = "construct" /\ last.ret # undefined
      /\ \A m \in Nodes \ {last.node} :
            ~(parentRegistry[m] = last.ret /\ scopeName[m] = scopeName[last.node]) )
    => ( /\ parentRegistry[last.node] = last.ret
         /\ mapHas(childRegistries[last.ret], toLocaleUpperCase(last.pattern))
         /\ childRegistries[last.ret][toLocaleUpperCase(last.pattern)] = last.node )

\* C9: a resolve of a pattern that no registration of any registry matches
\* completes normally and returns the empty sequence.
C9_NotFoundIsEmpty ==
    ( /\ last.op = "resolve"
      /\ \A m \in Nodes : ~matches(m, last.pattern) )
    => (last.outcome = "returned" /\ last.ret = <<>>)

\* A resolve found nothing although the tree holds registrations.
C9_Witness ==
    /\ last.op = "resolve"
    /\ \A m \in Nodes : ~matches(m, last.pattern)
    /\ Cardinality(storedAt(apiMap)) > 0
    /\ last.ret = <<>>

\* C10: a register or unregister call whose handler is not a function throws
\* and leaves every handler table, child table and parent reference as it was.
C10_NonFunctionRejected ==
    [][ ( /\ last'.op \in {"register", "unregister"}
          /\ last'.api \notin Functions )
        => ( /\ last'.outcome = "threw"
             /\ UNCHANGED <<apiMap, childRegistries, parentRegistry, scopeName>> ) ]_vars

\* A register call with a non-function was rejected while the tree holds handlers.
C10_Witness ==
    /\ last.op \in {"register", "unregister"}
    /\ last.api \in NonFunctions
    /\ last.outcome = "threw"
    /\ Cardinality(storedAt(apiMap)) > 0

\* C11: when register(p, h1) has left the registry's list for p equal to [h1]
\* and the next call is register(p, h2) on the same registry with another
\* handler h2, the list for p is then [h1, h2] (whatever h2 would return if
\* it were called).
C11_FanOutInOrder ==
    [][ ( /\ last.op = "register" /\ last.outcome = "returned"
          /\ mapHas(apiMap[last.node], toLocaleUpperCase(last.pattern))
          /\ apiMap[last.node][toLocaleUpperCase(last.pattern)] = <<last.api>>
          /\ last'.op = "register" /\ last'.outcome = "returned"
          /\ last'.node = last.node
          /\ toLocaleUpperCase(last'.pattern) = toLocaleUpperCase(last.pattern)
          /\ last'.api # last.api )
        => ( /\ mapHas(apiMap'[last.node], toLocaleUpperCase(last.pattern))
             /\ apiMap'[last.node][toLocaleUpperCase(last.pattern)]
                    = <<last.api, last'.api>> ) ]_vars

\* C12: right after unregisterAll() on a registry that had registrations,
\* resolve on that registry returns the empty sequence for every pattern: for
\* each key it held, for the key behind the registry's scope name, and for
\* every other pattern handed to resolve.
C12_Teardown ==
    last.op = "unregisterAll"
    => \A q \in ResolvePatterns \cup last.cleared
                \cup {scopeName[last.node] \o <<":", ":">> \o k : k \in last.cleared} :
           resolve(last.node, q) = <<>>

\* unregisterAll has just cleared a registry, constructed after another one,
\* that held a key which a pattern handed to resolve addresses.
C12_Witness ==
    /\ last.op = "unregisterAll"
    /\ \E k \in last.cleared, q \in ResolvePatterns : addresses(last.node, q, k)
    /\ \E m \in Nodes : m < last.node

\* Registry c was constructed as the only child of registry n with its name.
onlyChild(n, c) ==
    /\ parentRegistry[c] = n
    /\ \A m \in Nodes \ {c} :
          ~(parentRegistry[m] = n /\ scopeName[m] = scopeName[c])

\* The local key that is left of a pattern array after its first i segments.
keyAfter(segments, i) == join(SubSeq(segments, i + 1, Len(segments)))

\* C13: when n.resolve(q) cannot resolve q locally (the leading segment is not
\* n's scope name) and n has a child c, named by the next segment, the result
\* is c's list for the remainder when c has one, and what n's parent resolves
\* (nothing, at the top-level registry) only when c has none.
C13_ChildrenBeforeParent ==
    \A c \in Nodes :
        ( /\ last.op = "resolve"
          /\ Len(patternLocal(last.pattern)) >= 2
          /\ patternLocal(last.pattern)[1] # scopeName[last.node]
          /\ patternLocal(last.pattern)[2] = scopeName[c]
          /\ onlyChild(last.node, c) )
        => last.ret =
              IF mapHas(apiMap[c], keyAfter(patternLocal(last.pattern), 2))
              THEN apiMap[c][keyAfter(patternLocal(last.pattern), 2)]
              ELSE IF parentRegistry[last.node] = undefined THEN <<>>
              ELSE resolve(parentRegistry[last.node], last.pattern)

\* C14 as stated: when the leading segment of the pattern is the registry's
\* scope name, resolve returns the registry's list for the remainder, and the
\* empty sequence when it has none, whatever its ancestors hold.
C14_LocalMatchAuthoritative ==
    ( /\ last.op = "resolve"
      /\ patternLocal(last.pattern)[1] = scopeName[last.node] )
    => last.ret =
          IF mapHas(apiMap[last.node], keyAfter(patternLocal(last.pattern), 1))
          THEN apiMap[last.node][keyAfter(patternLocal(last.pattern), 1)]
          ELSE <<>>

\* C14, amended: when the leading segment of the pattern is the registry's
\* scope name, resolve returns the registry's list for the remainder when it
\* has one; when it has none, resolve returns what the parent's resolve of the
\* same pattern returns, and the empty sequence when there is no parent.
C14_LocalMatchThenParent ==
    ( /\ last.op = "resolve"
      /\ patternLocal(last.pattern)[1] = scopeName[last.node] )
    => last.ret =
          IF mapHas(apiMap[last.node], keyAfter(patternLocal(last.pattern), 1))
          THEN apiMap[last.node][keyAfter(patternLocal(last.pattern), 1)]
          ELSE IF parentRegistry[last.node] = undefined THEN <<>>
          ELSE resolve(parentRegistry[last.node], last.pattern)

\* A resolve whose leading segment is the registry's scope name found no local
\* list and was answered by an ancestor.
C14_Witness ==
    /\ last.op = "resolve"
    /\ patternLocal(last.pattern)[1] = scopeName[last.node]
    /\ ~mapHas(apiMap[last.node], keyAfter(patternLocal(last.pattern), 1))
    /\ parentRegistry[last.node] # undefined
    /\ Len(last.ret) > 0

\* C15: when the leading segment of the pattern is not n's scope name and n
\* has a child c named by the next segment, n.resolve returns what c's search
\* of the pattern returns, the empty sequence included.
C15_Descent ==
    \A c \in Nodes :
        ( /\ last.op = "resolve"
          /\ Len(patternLocal(last.pattern)) >= 2
          /\ patternLocal(last.pattern)[1] # scopeName[last.node]
          /\ patternLocal(last.pattern)[2] = scopeName[c]
          /\ onlyChild(last.node, c) )
        => last.ret = find(c, Tail(patternLocal(last.pattern)))

\* C17: in every reachable state no handler reference occurs more than once in
\* the list of any pattern of any registry.
C17_NoDuplicateHandlers ==
    \A n \in Nodes : \A k \in DOMAIN apiMap[n] : \A h \in Functions :
        count(apiMap[n][k], h) <= 1

\* C18: in every reachable state no pattern key of any registry's handler
\* table maps to an empty list.
C18_NoEmptyLists ==
    \A n \in Nodes : \A k \in DOMAIN apiMap[n] : Len(apiMap[n][k]) > 0

\* An unregister has just removed the last handler of a key, and the key with it.
C18_Witness ==
    /\ last.op = "unregister"
    /\ last.changed
    /\ ~mapHas(apiMap[last.node], toLocaleUpperCase(last.pattern))

\* C19: no call of register, unregister, resolve or unregisterAll invokes a
\* handler.
C19_HandlersNeverInvoked ==
    last.op \in {"register", "unregister", "resolve", "unregisterAll"}
    => last.invoked = 0

\* C20: a register call on a registry changes at most that registry's list for
\* the upper-cased pattern: every other key of its handler table, its child
\* table, its parent reference and its scope name, and every table of every
\* other registry, are as before.
C20_RegisterFrame ==
    [][ last'.op = "register"
        => ( /\ scopeName' = scopeName
             /\ parentRegistry' = parentRegistry
             /\ childRegistries' = childRegistries
             /\ \A m \in Nodes \ {last'.node} : apiMap'[m] = apiMap[m]
             /\ \A k \in (DOMAIN apiMap[last'.node] \cup DOMAIN apiMap'[last'.node])
                            \ {toLocaleUpperCase(last'.pattern)} :
                   /\ mapHas(apiMap[last'.node], k)
                   /\ mapHas(apiMap'[last'.node], k)
                   /\ apiMap'[last'.node][k] = apiMap[last'.node][k] ) ]_vars

\* A register has just stored a handler in a registry that has a parent and
\* holds another key as well.
C20_Witness ==
    /\ last.op = "register"
    /\ last.changed
    /\ parentRegistry[last.node] # undefined
    /\ Cardinality(DOMAIN apiMap[last.node]) >= 2

\* C16: every resolve call returns, and on the way no registry's resolve is
\* asked twice: each one asked after the first is the parent of the one asked
\* before it.
C16_ResolveTerminates ==
    /\ [](\A i \in DOMAIN call.asked, j \in DOMAIN call.asked :
              i # j => call.asked[i] # call.asked[j])
    /\ (call.pc = "awaiting") ~> (call.pc = "done")

\* A resolve call on a grandchild has returned after it asked the grandchild,
\* its parent and the root, in that order.
C16_Witness ==
    /\ call.pc = "done"
    /\ Len(call.asked) = 3
    /\ parentRegistry[call.asked[3]] = undefined

\* C21: unregisterAll() on a registry N empties N's handler table and child
\* table and clears N's parent reference; no other registry's handler table,
\* child table or parent reference changes; and when N was constructed as the
\* only child of its name under a parent, that parent's child table lists N
\* afterwards.
C21_TeardownNotRecursive ==
    [][ last'.op = "unregisterAll"
        => ( /\ apiMap'[last'.node] = EmptyMap
             /\ childRegistries'[last'.node] = EmptyMap
             /\ parentRegistry'[last'.node] = undefined
             /\ \A m \in Nodes \ {last'.node} :
                   /\ apiMap'[m] = apiMap[m]
                   /\ childRegistries'[m] = childRegistries[m]
                   /\ parentRegistry'[m] = parentRegistry[m]
             /\ ( parentRegistry[last'.node] # undefined
                    /\ onlyChild(parentRegistry[last'.node], last'.node) )
                => childGet(childRegistries'[parentRegistry[last'.node]],
                            scopeName[last'.node]) = last'.node ) ]_vars

\* Registry a is the registry m or an ancestor of it, and has a registration
\* that the pattern q addresses.
answersAbove(m, q) == \E a \in Nodes : onChain(m, a) /\ matches(a, q)

\* C22: unregisterAll() on a registry M with a parent leaves every child D of
\* M with its parent reference to M; and right after it, D.resolve of a
\* pattern that M's former parent or an ancestor of it answers, and D does
\* not, returns the empty sequence.
C22_StaleParent ==
    /\ [][ last'.op = "unregisterAll"
           => \A d \in Nodes :
                 parentRegistry[d] = last'.node => parentRegistry'[d] = last'.node ]_vars
    /\ [] ( ( last.op = "unregisterAll" /\ last.detached # undefined )
            => \A d \in Nodes, q \in ResolvePatterns :
                  ( /\ parentRegistry[d] = last.node
                    /\ answersAbove(last.detached, q)
                    /\ ~matches(d, q) )
                  => resolve(d, q) = <<>> )

\* unregisterAll has just cleared a registry between a child and a parent that
\* holds a registration which a pattern handed to resolve addresses.
C22_Witness ==
    /\ last.op = "unregisterAll"
    /\ last.detached # undefined
    /\ \E d \in Nodes, q \in ResolvePatterns :
          /\ parentRegistry[d] = last.node
          /\ matches(last.detached, q)
          /\ ~matches(d, q)
          /\ resolve(last.detached, q) # <<>>

\* C23: in every reachable state no two registries with the same parent have
\* the same scope name.
C23_SiblingNamesUnique ==
    \A a \in Nodes, b \in Nodes :
        ( a # b /\ parentRegistry[a] # undefined /\ parentRegistry[a] = parentRegistry[b] )
        => scopeName[a] # scopeName[b]

\* The registries on the parent chain of n, from the one without a parent
\* down to n.
RECURSIVE chainTo(_)
chainTo(n) ==
    IF parentRegistry[n] = undefined THEN <<n>>
    ELSE Append(chainTo(parentRegistry[n]), n)

\* The upper-cased scope names of the registries in a chain.
chainNames(c) == [i \in 1..Len(c) |-> toLocaleUpperCase(scopeName[c[i]])]

\* C24: domainPath of a registry is the upper-cased scope names on its parent
\* chain, from the registry without a parent down to the registry, joined by
\* "::"; for a registry without a parent it is its own scope name; and
\* reading domainPath changes no registry.
C24_DomainPath ==
    /\ [] ( last.op = "domainPath"
            => /\ last.ret = join(chainNames(chainTo(last.node)))
               /\ parentRegistry[last.node] = undefined
                  => last.ret = scopeName[last.node] )
    /\ [][ last'.op = "domainPath"
           => UNCHANGED <<scopeName, parentRegistry, apiMap, childRegistries>> ]_vars

\* domainPath was read on a registry two levels below the top.
C24_Witness ==
    /\ last.op = "domainPath"
    /\ Len(chainTo(last.node)) = 3
    /\ Len(split(last.ret)) = 3

\* C26: a resolve call that has returned, having run while registries were
\* constructed, handlers registered and registries torn down, returned what an
\* uninterrupted resolve of the same pattern on the same registry returns in
\* one of the states between its invocation and its return.
C26_ResolveLinearizable ==
    call.pc = "done" => call.ret \in seen

RECURSIVE oneAtATime(_, _)
oneAtATime(m, calls) ==
    IF Len(calls) = 0 THEN m
    ELSE LET c == Head(calls)
             after == IF c.op = "register" THEN registerMap(m, c.pattern, c.api)
                      ELSE unregisterMap(m, c.pattern, c.api)
         IN  oneAtATime(after, Tail(calls))

C28_UnloadUndoesLoad ==
    ( /\ apiRegistry \in Nodes
      /\ \A t \in DOMAIN middleware.tasks : middleware.tasks[t].pc = "done"
      /\ \A i \in DOMAIN middleware.made : middleware.made[i].state = "unloaded" )
    => apiMap[apiRegistry] = EmptyMap

\* C29: as long as destroyInstances was not called on a factory, at most one
\* instance of its middleware has been constructed, whether or not the
\* createInstances calls overlapped.
C29_OneInstance ==
    \A class \in Classes :
        (\A t \in DOMAIN middleware.tasks :
             ~(middleware.tasks[t].op = "destroy" /\ middleware.tasks[t].class = class))
        => Cardinality({i \in DOMAIN middleware.made :
                            middleware.made[i].class = class}) <= 1

\* C30: when a destroyInstances(configuration) call on the repository factory
\* returns after it unloaded the instance, the factory's map holds no instance
\* under the key of that configuration.
C30_DestroyClearsCache ==
    [][ \A t \in DOMAIN repository.tasks :
          LET before == repository.tasks[t]
              after == repository'.tasks[t]
          IN  /\ ( /\ before.op = "destroy"
                   /\ before.configuration # noConfiguration
                   /\ before.pc = "delete" /\ after.pc = "done" )
                 => ~mapHas(repository'.sqldbInstances,
                            repositoryKey(before.configuration))
        ]_vars

====
